---------------------------- MODULE Spec2Model ----------------------------
(***************************************************************************)
(* A model of PFSP-WT (permutation flow shop, weighted tardiness): the     *)
(* completion-time kernel, the objectives, the NEH seed, the local-search  *)
(* kernels, the optimizers and the ACO loop with its MMAS and PACO         *)
(* policies.                                                               *)
(*                                                                         *)
(* Conventions.  Job identifiers are 0-based as in the source; a NumPy     *)
(* array is a TLA+ sequence, so position k of the source is index k+1      *)
(* here.  A NumPy array object is an address into `heap`, because the      *)
(* source shares arrays between the optimizer, the colony and the local    *)
(* searches, which write into them in place.                               *)
(***************************************************************************)
EXTENDS Integers, Sequences, FiniteSets, TLC

VARIABLES
    instance,    \* pfspwt.Instance: [n, m, p, d, w]
    heap,        \* address -> contents of the int32 array living there
    optimizer,   \* BaseOptimizer / Optimizer / BiObjectiveOptimizer fields
    aco,         \* ACO fields (MMAS or PACO)
    solutions,   \* ACO.step local: ants made so far in this step
    scores,      \* ACO.step local: their scores
    pc,          \* position of the driver of run.py
    now,         \* time.time()
    observed,    \* what the last is_running() call of the run returned
    steps,       \* number of ACO.step calls that have returned
    evaluated,   \* objective tuples handed back by _evaluate so far
    runs,        \* number of optimizer.start() calls so far
    fn           \* last application of a function under test

vars == <<instance, heap, optimizer, aco, solutions, scores, pc, now,
          observed, steps, evaluated, runs, fn>>

---------------------------------------------------------------------------
(* Bounds of the model. *)

MaxN == 3         \* jobs of a generated instance
MaxM == 2         \* machines of a generated instance

(* Values the generated instances draw from. *)
PVals == {1, 2}
DVals == {1, 3}
WVals == {1, 2}

(* Program values with no integer counterpart. *)
Inf == -1         \* np.inf
None == -2        \* None

---------------------------------------------------------------------------
(* Arithmetic and sequence helpers. *)

Max(a, b) == IF a >= b THEN a ELSE b

Min(a, b) == IF a <= b THEN a ELSE b

Range(s) == {s[i] : i \in DOMAIN s}

\* a < b where either side may be np.inf
Less(a, b) == IF a = Inf THEN FALSE ELSE IF b = Inf THEN TRUE ELSE a < b

\* a > b where b may be np.inf
Greater(a, b) == Less(b, a)

RECURSIVE SumSeq(_)
SumSeq(s) == IF s = <<>> THEN 0 ELSE s[1] + SumSeq(Tail(s))

\* np.cumsum
cumsum(s) == [i \in 1..Len(s) |-> SumSeq(SubSeq(s, 1, i))]

\* np.dot of two vectors
dot(a, b) == SumSeq([i \in 1..Len(a) |-> a[i] * b[i]])

\* Permutations of the job identifiers 0..n-1, as sequences
Perms(n) ==
    {s \in [1..n -> 0..(n-1)] : \A i, j \in 1..n : i # j => s[i] # s[j]}

\* sort(pi) == [0, 1, ..., n-1]
IsPermutation(s, n) == Len(s) = n /\ Range(s) = 0..(n-1)

---------------------------------------------------------------------------
(* objective.py *)

\* a[solution] of NumPy for a vector or matrix indexed by job identifier
Take(a, solution) ==
    LET n == Cardinality(DOMAIN a)
    IN  [i \in 1..Len(solution) |->
            a[IF solution[i] < 0 THEN solution[i] + n ELSE solution[i]]]

\* computation_times(c, p): the buffer c after the call, for p already
\* ordered; first column and first row by cumsum, the rest by two loops.
RECURSIVE FillRows(_, _, _)
FillRows(p, c, i) ==
    IF i > Len(p) THEN c
    ELSE LET m == Len(p[1])
             first == c[i][1]
             RECURSIVE row(_, _)
             row(r, j) ==
                 IF j > m THEN r
                 ELSE row(Append(r, Max(c[i-1][j], r[j-1]) + p[i][j]), j + 1)
         IN  FillRows(p, [c EXCEPT ![i] = row(<<first>>, 2)], i + 1)

computation_times(p) ==
    LET n == Len(p)
        col == cumsum([i \in 1..n |-> p[i][1]])
        c0 == [i \in 1..n |-> IF i = 1 THEN cumsum(p[1]) ELSE <<col[i]>>]
    IN  FillRows(p, c0, 2)

\* c[:, -1]
LastColumn(c) == [i \in 1..Len(c) |-> c[i][Len(c[i])]]

\* np.maximum(c[:, -1] - d, 0)
Tardiness(c, d) ==
    [i \in 1..Len(c) |-> Max(LastColumn(c)[i] - d[i], 0)]

\* weighted_tardiness with the due dates left in job order (d = instance.d)
weighted_tardiness_unordered_d(inst, solution) ==
    LET c == computation_times(Take(inst.p, solution))
    IN  dot(Take(inst.w, solution),
            Tardiness(c, [i \in 1..Len(solution) |-> inst.d[i-1]]))

\* weighted_tardiness(instance, solution, refresh=True)
weighted_tardiness(inst, solution) ==
    LET c == computation_times(Take(inst.p, solution))
    IN  dot(Take(inst.w, solution), Tardiness(c, Take(inst.d, solution)))

\* makespan(instance, solution, refresh=False) right after weighted_tardiness
\* of the same solution: np.max over the last column of the buffer it left
makespan(inst, solution) ==
    LET c == computation_times(Take(inst.p, solution))
        last == LastColumn(c)
    IN  CHOOSE x \in Range(last) : \A y \in Range(last) : y <= x

---------------------------------------------------------------------------
(* NumPy array objects.  heap[a] is the contents of the array at address   *)
(* a; Free marks an address no live reference names.                       *)

Free == <<>>

\* address of a new array: the lowest unused one
Alloc(h) ==
    IF \E a \in DOMAIN h : h[a] = Free
    THEN CHOOSE a \in DOMAIN h :
             h[a] = Free /\ \A b \in DOMAIN h : h[b] = Free => a <= b
    ELSE Len(h) + 1

\* heap after writing contents v at address a
Store(h, a, v) == IF a = Len(h) + 1 THEN Append(h, v) ELSE [h EXCEPT ![a] = v]

RECURSIVE Trim(_)
Trim(h) ==
    IF h # <<>> /\ h[Len(h)] = Free THEN Trim(SubSeq(h, 1, Len(h) - 1)) ELSE h

\* reference counting: arrays no reference in `roots` names are released
Collect(h, roots) ==
    Trim([a \in DOMAIN h |-> IF a \in roots THEN h[a] ELSE Free])

---------------------------------------------------------------------------
(* optimizer/base.py, optimizer/optimizer.py, optimizer/bioptimizer.py *)

\* BaseOptimizer.__init__ with Optimizer.__init__ / BiObjectiveOptimizer.__init__
NewOptimizer(kind, n_iterations, early_stopping, max_time) ==
    [kind |-> kind,
     objective |-> <<>>,
     max_n_iterations |-> n_iterations,
     n_iterations |-> 0,
     early_stopping |-> early_stopping,
     max_time |-> max_time,
     t0 |-> None,
     n_steps_without_improvement |-> 0,
     best |-> None,
     Zbest |-> Inf,
     pareto_set |-> <<>>]

\* BaseOptimizer.start
start(o, t) ==
    [o EXCEPT !.t0 = IF o.max_time # None THEN t ELSE o.t0,
              !.n_iterations = 0,
              !.n_steps_without_improvement = 0,
              !.objective = <<>>]

\* Optimizer._evaluate: the array itself is kept as `best`, not a copy
Optimizer_evaluate(o, inst, h, a) ==
    LET wt == weighted_tardiness(inst, h[a])
        is_improvement == Less(wt, o.Zbest)
    IN  [opt |-> IF is_improvement
                 THEN [o EXCEPT !.Zbest = wt, !.best = a]
                 ELSE o,
         objectives |-> <<wt>>,
         is_improvement |-> is_improvement]

\* the bad variant of the rule: the weighted tardiness alone decides
dominates_on_wt_alone(a, b) == a.wt < b.wt

\* BiObjectiveOptimizer.dominates
dominates(a, b) ==
    a.wt <= b.wt /\ a.m <= b.m /\ (a.wt < b.wt \/ a.m < b.m)

\* dict[(wt, m)] = sol: an existing key keeps its place and takes the new
\* value, a new key goes last
DictSet(dict, e) ==
    IF \E i \in DOMAIN dict : dict[i].wt = e.wt /\ dict[i].m = e.m
    THEN [i \in DOMAIN dict |->
             IF dict[i].wt = e.wt /\ dict[i].m = e.m THEN e ELSE dict[i]]
    ELSE Append(dict, e)

\* the for loop of BiObjectiveOptimizer._evaluate over pareto_set.items()
RECURSIVE ParetoScan(_, _, _, _, _)
ParetoScan(set, new, i, new_pareto_set, is_improvement) ==
    IF i > Len(set)
    THEN [new_sol_is_dominated |-> FALSE,
          new_pareto_set |-> new_pareto_set,
          is_improvement |-> is_improvement]
    ELSE IF dominates(set[i], new)
    THEN [new_sol_is_dominated |-> TRUE,
          new_pareto_set |-> new_pareto_set,
          is_improvement |-> is_improvement]
    ELSE IF ~dominates(new, set[i])
    THEN ParetoScan(set, new, i + 1, DictSet(new_pareto_set, set[i]),
                    is_improvement)
    ELSE ParetoScan(set, new, i + 1, new_pareto_set, TRUE)

\* BiObjectiveOptimizer._evaluate
BiObjectiveOptimizer_evaluate(o, inst, h, a) ==
    LET new == [wt |-> weighted_tardiness(inst, h[a]),
                m |-> makespan(inst, h[a]),
                sol |-> a]
        scan == ParetoScan(o.pareto_set, new, 1, <<>>, FALSE)
    IN  [opt |-> IF ~scan.new_sol_is_dominated
                 THEN [o EXCEPT !.pareto_set = DictSet(scan.new_pareto_set, new)]
                 ELSE o,
         objectives |-> <<new.wt, new.m>>,
         is_improvement |-> scan.is_improvement]

\* BaseOptimizer.evaluate: [opt: the optimizer afterwards, ret: the value returned]
evaluate(o, inst, h, a) ==
    LET r == IF o.kind = "Optimizer"
             THEN Optimizer_evaluate(o, inst, h, a)
             ELSE BiObjectiveOptimizer_evaluate(o, inst, h, a)
        n == IF ~r.is_improvement
             THEN r.opt.n_steps_without_improvement + 1
             ELSE 0
    IN  [opt |-> [r.opt EXCEPT !.n_steps_without_improvement = n,
                               !.objective = Append(@, r.objectives)],
         ret |-> r.objectives[1]]

\* BaseOptimizer.step
step(o) == [o EXCEPT !.n_iterations = @ + 1]

\* BaseOptimizer.is_running at time t
is_running(o, t) ==
    IF o.t0 # None /\ o.max_time < t - o.t0 THEN FALSE
    ELSE IF o.early_stopping # None
            /\ Greater(o.n_steps_without_improvement, o.early_stopping)
    THEN FALSE
    ELSE IF o.n_iterations # None
            /\ ~Less(o.n_iterations, o.max_n_iterations)
    THEN FALSE
    ELSE TRUE

\* Optimizer.solutions / the arrays the Pareto set holds
OptimizerRefs(o) ==
    (IF o.best = None THEN {} ELSE {o.best})
    \cup {o.pareto_set[i].sol : i \in DOMAIN o.pareto_set}

\* Optimizer.solutions: the list [self.best]
Optimizer_solutions(o, h) ==
    [raised |-> "none",
     ret |-> <<IF o.best = None THEN None ELSE h[o.best]>>]

\* iterating a dict yields its keys: the tuples (wt, m)
Keys(dict) == [i \in DOMAIN dict |-> <<dict[i].wt, dict[i].m>>]

\* BiObjectiveOptimizer.solutions: `for _, _, sol in self.pareto_set`
\* unpacks each item the iteration yields into three names
BiObjectiveOptimizer_solutions(o, h) ==
    LET items == Keys(o.pareto_set)
    IN  IF \E i \in DOMAIN items : Len(items[i]) # 3
        THEN [raised |-> "ValueError", ret |-> <<>>]
        ELSE [raised |-> "none",
              ret |-> [i \in DOMAIN items |-> items[i][3]]]

\* optimizer.solutions()
solutions_of(o, h) ==
    IF o.kind = "Optimizer" THEN Optimizer_solutions(o, h)
    ELSE BiObjectiveOptimizer_solutions(o, h)

---------------------------------------------------------------------------
(* neighbourhood.py.  Loop variables are the 0-based positions of the      *)
(* source; s[i+1] is its s[i].  The kernels work on float32 copies of the  *)
(* weights and tardiness, exact for the integers of the model.             *)

\* s[i], s[j] = s[j], s[i]
Exchange(s, i, j) == [s EXCEPT ![i+1] = s[j+1], ![j+1] = s[i+1]]

\* s[j+1:i+1], s[j] = s[j:i], s[i]   (j < i)
Insert(s, i, j) ==
    [k \in 1..Len(s) |->
        IF k = j + 1 THEN s[i+1]
        ELSE IF k > j + 1 /\ k <= i + 1 THEN s[k-1]
        ELSE s[k]]

\* np.dot(w, np.maximum(c[:, -1] - d, 0)) after computation_times(c, p[solution, :])
KernelZ(p, d, w, solution) ==
    dot(w, Tardiness(computation_times(Take(p, solution)), d))

\* the for loop of __swap_search from index i on
RECURSIVE SwapLoop(_, _, _, _, _, _, _)
SwapLoop(p, d, w, solution, i, bestZ, best_idx) ==
    IF i >= Len(solution) - 1
    THEN [solution |-> solution, bestZ |-> bestZ, best_idx |-> best_idx]
    ELSE LET swapped == Exchange(solution, i, i + 1)
             currentZ == KernelZ(p, d, w, swapped)
             restored == Exchange(swapped, i, i + 1)
         IN  IF currentZ < bestZ
             THEN SwapLoop(p, d, w, restored, i + 1, currentZ, i)
             ELSE SwapLoop(p, d, w, restored, i + 1, bestZ, best_idx)

\* __swap_search(c, p, d, w, solution, new_sol): the caller's array afterwards,
\* the array written to new_sol, and the flag returned
swap_kernel(p, d, w, solution) ==
    LET r == SwapLoop(p, d, w, solution, 0, KernelZ(p, d, w, solution), -1)
        i == r.best_idx
    IN  [solution |-> r.solution,
         new_sol |-> IF i > -1 THEN Exchange(solution, i, i + 1) ELSE solution,
         improvement |-> i > -1]

\* the two for loops of __insertion_search from (i, j) on; the statement meant
\* to put the jobs back builds a tuple and assigns nothing
RECURSIVE InsertionLoop(_, _, _, _, _, _, _, _, _)
InsertionLoop(p, d, w, solution, i, j, bestZ, best_i, best_j) ==
    IF i >= Len(solution)
    THEN [solution |-> solution, best_i |-> best_i, best_j |-> best_j]
    ELSE IF j >= i
    THEN InsertionLoop(p, d, w, solution, i + 1, 0, bestZ, best_i, best_j)
    ELSE LET moved == Insert(solution, i, j)
             currentZ == KernelZ(p, d, w, moved)
         IN  IF currentZ < bestZ
             THEN InsertionLoop(p, d, w, moved, i, j + 1, currentZ, i, j)
             ELSE InsertionLoop(p, d, w, moved, i, j + 1, bestZ, best_i, best_j)

\* __insertion_search(c, p, d, w, solution, new_sol)
insertion_kernel(p, d, w, solution) ==
    LET r == InsertionLoop(p, d, w, solution, 0, 0,
                           KernelZ(p, d, w, solution), -1, -1)
    IN  [solution |-> r.solution,
         new_sol |-> IF r.best_i > -1
                     THEN Insert(solution, r.best_i, r.best_j)
                     ELSE solution,
         improvement |-> r.best_i > -1]

\* the arrays __insertion_search hands to computation_times, in the order
\* of the two for loops from (i, j) on
RECURSIVE InsertionCandidates(_, _, _)
InsertionCandidates(solution, i, j) ==
    IF i >= Len(solution) THEN <<>>
    ELSE IF j >= i THEN InsertionCandidates(solution, i + 1, 0)
    ELSE LET moved == Insert(solution, i, j)
         IN  <<[i |-> i, j |-> j, moved |-> moved]>>
             \o InsertionCandidates(moved, i, j + 1)

\* swap_search(instance, solution): d and w are ordered once, by the solution
\* handed in
swap_search(inst, solution) ==
    swap_kernel(inst.p, Take(inst.d, solution), Take(inst.w, solution), solution)

\* interchange_search(instance, solution): the wrapper calls __swap_search
interchange_search(inst, solution) ==
    swap_kernel(inst.p, Take(inst.d, solution), Take(inst.w, solution), solution)

\* insertion_search(instance, solution)
insertion_search(inst, solution) ==
    insertion_kernel(inst.p, Take(inst.d, solution), Take(inst.w, solution),
                     solution)

---------------------------------------------------------------------------
(* heuristics.py *)

\* np.argsort(d) with the default kind, which is not a stable sort: every
\* order of the job identifiers that sorts the due dates is a possible result
argsort(d, n) ==
    {s \in Perms(n) : \A i \in 1..(n-1) : d[s[i]] <= d[s[i+1]]}

\* solution[:h] + [x] + solution[h:]
ListInsert(solution, h, x) ==
    SubSeq(solution, 1, h) \o <<x>> \o SubSeq(solution, h + 1, Len(solution))

\* the inner for loop of neh_algorithm: the position kept for job x
RECURSIVE NehPosition(_, _, _, _, _, _)
NehPosition(inst, solution, x, h, best_wt, best_idx) ==
    IF h > Len(solution) THEN best_idx
    ELSE LET wt == weighted_tardiness(inst, ListInsert(solution, h, x))
         IN  IF Less(wt, best_wt)
             THEN NehPosition(inst, solution, x, h + 1, wt, h)
             ELSE NehPosition(inst, solution, x, h + 1, best_wt, best_idx)

\* the outer for loop of neh_algorithm from k on
RECURSIVE NehLoop(_, _, _, _)
NehLoop(inst, indices, solution, k) ==
    IF k >= Len(indices) THEN solution
    ELSE LET x == indices[k+1]
             best_idx == NehPosition(inst, solution, x, 0, Inf, 0)
         IN  NehLoop(inst, indices, ListInsert(solution, best_idx, x), k + 1)

\* neh_algorithm(instance), given the result of np.argsort
neh_algorithm(inst, indices) == NehLoop(inst, indices, <<indices[1]>>, 1)

---------------------------------------------------------------------------
(* aco/mmas.py and aco/paco.py: solution construction.  The kernels are    *)
(* compiled without bounds checks; a read past the end of an array gives   *)
(* whatever the memory holds.  A construction is given as the set of       *)
(* sequences the random draws can produce.                                 *)

WindowSize == 5   \* np.zeros(5) of PACO, idx[:5] of MMAS

\* what a read past the end of an int32 array may give: a job identifier
\* or a value that is none
Garbage(n) == -1..n

\* np.searchsorted(np.cumsum(proba), np.random.rand()) for len probabilities:
\* a slot, or len when rounding leaves the last cumulative sum below the draw
searchsorted(len) == 0..len

\* candidates[np.arange(candidates.shape[0]) != candidate_id]
Without(candidates, candidate_id) ==
    [k \in 1..(Len(candidates) - 1) |->
        IF k <= candidate_id THEN candidates[k] ELSE candidates[k+1]]

\* candidates[candidate_id] for a candidate_id that may lie outside the array
ReadSlot(candidates, candidate_id, n) ==
    IF candidate_id \in 0..(Len(candidates) - 1)
    THEN {candidates[candidate_id + 1]}
    ELSE Garbage(n)

\* idx[:5][np.searchsorted(np.cumsum(proba), np.random.rand())], proba being
\* T[candidates, k] over all len candidates and idx = np.arange(n): idx[:5]
\* has min(5, n) slots and is read without a bounds check
MMAS_sampled_id(n, len) ==
    UNION {IF r < Min(WindowSize, n) THEN {r} ELSE Garbage(n) :
               r \in searchsorted(len)}

\* one turn of the for loop of MMAS._create_solution: the values candidate_id
\* can take.  u < (n - 4) / n needs n > 4 and takes the argmax over the
\* candidates; otherwise idx[:5] is read at the slot searchsorted gives,
\* which is idx itself while the slot is below n.
MMAS_candidate_id(n, candidates) ==
    (IF n > 4 THEN 0..(Len(candidates) - 1) ELSE {})
    \cup MMAS_sampled_id(n, Len(candidates))

\* the for loop of MMAS._create_solution from position k on: the set of
\* arrays `solution` can end as
RECURSIVE MMAS_loop(_, _, _, _)
MMAS_loop(n, k, candidates, solution) ==
    IF k >= n THEN {solution}
    ELSE UNION {
        UNION {MMAS_loop(n, k + 1,
                         IF candidate_id \in 0..(Len(candidates) - 1)
                         THEN Without(candidates, candidate_id)
                         ELSE candidates,
                         [solution EXCEPT ![k+1] = i]) :
                   i \in ReadSlot(candidates, candidate_id, n)} :
        candidate_id \in MMAS_candidate_id(n, candidates)}

\* MMAS._create_solution(T, solution, best, candidates) for any T
MMAS_create_kernel(n, best) ==
    MMAS_loop(n, 0, best, [k \in 1..n |-> k - 1])

\* the bad variant of the test: job identifiers in range, repeats not looked at
Accepted_in_range_only(solution, n) ==
    \A k \in DOMAIN solution : n > solution[k] /\ solution[k] >= 0

\* the test of MMAS.create_solution on the constructed array
Accepted(solution, n) ==
    /\ n = Cardinality(Range(solution))
    /\ \A k \in DOMAIN solution : n > solution[k] /\ solution[k] >= 0

\* MMAS.create_solution: [solution: the contents returned, fresh: whether it
\* is a new array (otherwise it is the array of self._best)]
MMAS_create_solution(n, best) ==
    {[constructed |-> s,
      solution |-> IF Accepted(s, n) THEN s ELSE best,
      fresh |-> Accepted(s, n)] : s \in MMAS_create_kernel(n, best)}

\* the first for loop of PACO._create_solution: candidates[next_id] =
\* best[next_id] for next_id < 5, read past the end of best when n < 5
PACO_window(n, best) ==
    {w \in [1..WindowSize -> Range(best) \cup Garbage(n)] :
        \A k \in 1..WindowSize : k <= n => w[k] = best[k]}

\* the values candidate_id can take in one turn of PACO._create_solution:
\* 0, the argmax over the window, or idx[:len] at the slot searchsorted gives
PACO_candidate_id(n, candidates) ==
    {0} \cup 0..(Len(candidates) - 1)
    \cup UNION {IF r < WindowSize THEN {r} ELSE Garbage(n) :
                    r \in searchsorted(Len(candidates))}

\* candidates[candidate_id:-1] = candidates[candidate_id+1:];
\* candidates[-1] = x
ShiftIn(candidates, candidate_id, x) ==
    [k \in 1..Len(candidates) |->
        IF k = Len(candidates) THEN x
        ELSE IF k > candidate_id THEN candidates[k+1]
        ELSE candidates[k]]

\* a slot as Python indexes it: negative values count from the end
Wrap(candidate_id, len) ==
    IF candidate_id < 0 /\ candidate_id >= -len
    THEN candidate_id + len ELSE candidate_id

\* the second for loop of PACO._create_solution from position k on
RECURSIVE PACO_loop(_, _, _, _, _, _)
PACO_loop(n, best, k, next_id, candidates, solution) ==
    IF k >= n THEN {solution}
    ELSE UNION {
        LET slot == Wrap(candidate_id, Len(candidates))
        IN  UNION {
              IF next_id < n /\ candidate_id < 0
              THEN {}   \* slices of different sizes: ValueError, nothing returned
              ELSE IF next_id < n
              THEN PACO_loop(n, best, k + 1, next_id + 1,
                             ShiftIn(candidates, candidate_id, best[next_id + 1]),
                             [solution EXCEPT ![k+1] = i])
              ELSE PACO_loop(n, best, k + 1, next_id,
                             IF candidate_id \in 0..(Len(candidates) - 1)
                             THEN Without(candidates, candidate_id)
                             ELSE candidates,
                             [solution EXCEPT ![k+1] = i]) :
              i \in ReadSlot(candidates, slot, n)} :
        candidate_id \in PACO_candidate_id(n, candidates)}

\* PACO._create_solution(T, solution, best, candidates) for any T
PACO_create_kernel(n, best) ==
    UNION {PACO_loop(n, best, 0, WindowSize, w, [k \in 1..n |-> k - 1]) :
               w \in PACO_window(n, best)}

\* PACO.create_solution: always a new array, returned as constructed
PACO_create_solution(n, best) ==
    {[constructed |-> s, solution |-> s, fresh |-> TRUE] :
        s \in PACO_create_kernel(n, best)}


---------------------------------------------------------------------------
(* Instances. *)

\* Instance.__init__(p, d, w) for n jobs and m machines
Instance(n, m, p, d, w) == [n |-> n, m |-> m, p |-> p, d |-> d, w |-> w]

\* every instance of up to MaxN jobs and MaxM machines over the value sets
GeneratedInstances ==
    UNION {{Instance(n, m, p, d, w) :
                p \in [0..(n-1) -> [1..m -> PVals]],
                d \in [0..(n-1) -> DVals],
                w \in [0..(n-1) -> WVals]} :
           n \in 1..MaxN, m \in 1..MaxM}

\* scenario "Tiny": N=3, M=2
Tiny ==
    Instance(3, 2, [j \in 0..2 |-> <<<<3, 2>>, <<2, 4>>, <<1, 3>>>>[j+1]],
             [j \in 0..2 |-> <<5, 9, 12>>[j+1]], [j \in 0..2 |-> 1])

\* scenario "Forced tardiness": N=2, M=1
\* three jobs with one due date, for which the NEH sequence of the job order
\* [0, 1, 2] is [2, 1, 0] (WT 3) while [0, 1, 2] has WT 2 and [2, 0, 1] WT 1
Improvable ==
    Instance(3, 2, [j \in 0..2 |-> <<<<1, 2>>, <<2, 1>>, <<1, 2>>>>[j+1]],
             [j \in 0..2 |-> 5],
             [j \in 0..2 |-> <<3, 1, 2>>[j+1]])

ForcedTardiness ==
    Instance(2, 1, [j \in 0..1 |-> <<5>>],
             [j \in 0..1 |-> 1], [j \in 0..1 |-> <<1, 2>>[j+1]])

---------------------------------------------------------------------------
(* Variables a specification does not use keep these values. *)

NoOptimizer == NewOptimizer("Optimizer", Inf, Inf, None)

NoAco == [policy |-> "none"]

IdleRun ==
    /\ heap = <<>>
    /\ optimizer = NoOptimizer
    /\ aco = NoAco
    /\ solutions = <<>>
    /\ scores = <<>>
    /\ pc = "idle"
    /\ now = 0
    /\ observed = "none"
    /\ steps = 0
    /\ evaluated = {}
    /\ runs = 0

runVars == <<heap, optimizer, aco, solutions, scores, pc, now, observed,
            steps, evaluated, runs>>

---------------------------------------------------------------------------
(* SpecFn: the objective, the swap search and NEH applied to every          *)
(* instance of the bounded family and every permutation of its jobs.       *)

InitFn ==
    /\ instance \in GeneratedInstances \cup {Tiny, ForcedTardiness}
    /\ fn = [op |-> "none"]
    /\ IdleRun

\* Optimizer.evaluate(instance, pi) on a started optimizer
FnEvaluate ==
    /\ fn.op = "none"
    /\ \E pi \in Perms(instance.n) :
        /\ fn' = [op |-> "evaluate", arg |-> pi,
                  out |-> evaluate(start(NoOptimizer, now), instance,
                                   <<pi>>, 1).ret]
        /\ UNCHANGED <<instance, runVars>>

\* swap_search(instance, pi)
FnSwapSearch ==
    /\ fn.op = "none"
    /\ \E pi \in Perms(instance.n) :
        /\ fn' = [op |-> "swap_search", arg |-> pi,
                  out |-> swap_search(instance, pi)]
        /\ UNCHANGED <<instance, runVars>>

\* neh_algorithm(instance)
FnNeh ==
    /\ fn.op = "none"
    /\ \E indices \in argsort(instance.d, instance.n) :
        /\ fn' = [op |-> "neh_algorithm", arg |-> indices,
                  out |-> neh_algorithm(instance, indices)]
        /\ UNCHANGED <<instance, runVars>>

\* interchange_search(instance, pi)
FnInterchangeSearch ==
    /\ fn.op = "none"
    /\ \E pi \in Perms(instance.n) :
        /\ fn' = [op |-> "interchange_search", arg |-> pi,
                  out |-> interchange_search(instance, pi)]
        /\ UNCHANGED <<instance, runVars>>

\* insertion_search(instance, pi), with the candidates it evaluates
FnInsertionSearch ==
    /\ fn.op = "none"
    /\ \E pi \in Perms(instance.n) :
        /\ fn' = [op |-> "insertion_search", arg |-> pi,
                  candidates |-> InsertionCandidates(pi, 0, 0),
                  out |-> insertion_search(instance, pi)]
        /\ UNCHANGED <<instance, runVars>>

NextFn ==
    \/ FnEvaluate
    \/ FnSwapSearch
    \/ FnInterchangeSearch
    \/ FnInsertionSearch
    \/ FnNeh

SpecFn == InitFn /\ [][NextFn]_vars

---------------------------------------------------------------------------
(* The weighted tardiness as the flow-shop recurrence defines it. *)

\* C[i, j] of the recurrence for the processing times ordered by pi
\* (i, j 0-based)
RECURSIVE RefC(_, _, _, _)
RefC(inst, pi, i, j) ==
    LET P == inst.p[pi[i+1]][j+1]
    IN  IF i = 0 /\ j = 0 THEN P
        ELSE IF j = 0 THEN RefC(inst, pi, i - 1, 0) + P
        ELSE IF i = 0 THEN RefC(inst, pi, 0, j - 1) + P
        ELSE Max(RefC(inst, pi, i - 1, j), RefC(inst, pi, i, j - 1)) + P

\* WT(pi) = sum_i w[pi_i] * max(C[i, M-1] - d[pi_i], 0)
RefWT(inst, pi) ==
    SumSeq([k \in 1..Len(pi) |->
               inst.w[pi[k]]
               * Max(RefC(inst, pi, k - 1, inst.m - 1) - inst.d[pi[k]], 0)])

\* C1: for every instance and every permutation pi, Optimizer.evaluate
\* returns the weighted tardiness of pi under the flow-shop recurrence.
C1_EvaluateReturnsWeightedTardiness ==
    fn.op = "evaluate" => fn.out = RefWT(instance, fn.arg)

\* an evaluation of a late schedule on two machines that is not the identity
C1_Witness ==
    /\ fn.op = "evaluate"
    /\ instance.n = 3 /\ instance.m = 2
    /\ fn.arg = <<2, 0, 1>>
    /\ fn.out > 0

\* C5: swap_search is best improvement on the true objective: the adjacent
\* swap of lowest weighted tardiness, earliest index on ties, if it is
\* strictly better than pi; otherwise pi itself and improvement = false.
C5_SwapSearchIsBestImprovement ==
    fn.op = "swap_search" =>
        LET pi == fn.arg
            Z(i) == RefWT(instance, Exchange(pi, i, i + 1))
            I == 0..(Len(pi) - 2)
            better == {i \in I : Z(i) < RefWT(instance, pi)}
        IN  IF better = {}
            THEN fn.out.new_sol = pi /\ ~fn.out.improvement
            ELSE LET i == CHOOSE i \in better :
                              \A k \in I : Z(i) < Z(k) \/ (Z(i) = Z(k) /\ i <= k)
                 IN  fn.out.new_sol = Exchange(pi, i, i + 1)
                     /\ fn.out.improvement

\* C16: one round of interchange_search scans every pair of positions
\* j < i < N and applies the exchange of lowest weighted tardiness if that
\* is strictly lower than the incumbent's; otherwise it returns pi and no
\* improvement.
C16_InterchangeScansEveryPair ==
    fn.op = "interchange_search" =>
        LET pi == fn.arg
            N == Len(pi)
            pairs == {ij \in (0..(N - 1)) \X (0..(N - 1)) : ij[2] < ij[1]}
            Z(ij) == RefWT(instance, Exchange(pi, ij[1], ij[2]))
            lowest == {ij \in pairs : \A kl \in pairs : Z(ij) <= Z(kl)}
        IN  IF \E ij \in pairs : Z(ij) < RefWT(instance, pi)
            THEN /\ fn.out.improvement
                 /\ \E ij \in lowest :
                        fn.out.new_sol = Exchange(pi, ij[1], ij[2])
            ELSE fn.out.new_sol = pi /\ ~fn.out.improvement

\* C17: every candidate (i, j) insertion_search evaluates is pi with that
\* one insertion applied, the caller's array is pi again when the search
\* returns, and the result is pi with the insertion of lowest weighted
\* tardiness applied if that is an improvement, pi itself otherwise.
C17_InsertionCandidatesAreSingleMoves ==
    fn.op = "insertion_search" =>
        LET pi == fn.arg
            N == Len(pi)
            pairs == {ij \in (0..(N - 1)) \X (0..(N - 1)) : ij[2] < ij[1]}
            Z(ij) == RefWT(instance, Insert(pi, ij[1], ij[2]))
            lowest == {ij \in pairs : \A kl \in pairs : Z(ij) <= Z(kl)}
        IN  /\ \A k \in DOMAIN fn.candidates :
                 fn.candidates[k].moved
                     = Insert(pi, fn.candidates[k].i, fn.candidates[k].j)
            /\ fn.out.solution = pi
            /\ IF \E ij \in pairs : Z(ij) < RefWT(instance, pi)
               THEN /\ fn.out.improvement
                    /\ \E ij \in lowest :
                           fn.out.new_sol = Insert(pi, ij[1], ij[2])
               ELSE fn.out.new_sol = pi /\ ~fn.out.improvement

\* the reference NEH: due dates ascending, ties by ascending job id; each job
\* goes to the position of lowest partial weighted tardiness, the smallest on ties
RefOrder(inst) ==
    CHOOSE s \in Perms(inst.n) :
        \A i \in 1..(inst.n - 1) :
            \/ inst.d[s[i]] < inst.d[s[i+1]]
            \/ inst.d[s[i]] = inst.d[s[i+1]] /\ s[i] < s[i+1]

RECURSIVE RefNEH(_, _, _)
RefNEH(inst, order, partial) ==
    IF Len(partial) = Len(order) THEN partial
    ELSE LET x == order[Len(partial) + 1]
             Z(h) == RefWT(inst, ListInsert(partial, h, x))
             H == 0..Len(partial)
             h == CHOOSE h \in H :
                      \A g \in H : Z(h) < Z(g) \/ (Z(h) = Z(g) /\ h <= g)
         IN  RefNEH(inst, order, ListInsert(partial, h, x))

\* C6: neh_algorithm returns a valid permutation equal to the reference NEH.
C6_NehIsReference ==
    fn.op = "neh_algorithm" =>
        /\ IsPermutation(fn.out, instance.n)
        /\ fn.out = RefNEH(instance, RefOrder(instance), <<RefOrder(instance)[1]>>)

---------------------------------------------------------------------------
(* SpecCons: MMAS.create_solution and PACO.create_solution of a colony     *)
(* whose best sequence is the identity or its reverse, for every pheromone *)
(* matrix and every sequence of draws.                                     *)

MaxJobs == 5      \* jobs of a colony under construction

\* ACO.__init__ followed by what initialize leaves: the fields the model keeps.
\* The pheromone matrix is not one of them: a construction is the set of the
\* sequences the kernel can build for some matrix and some draws.
Colony(policy, n_ants, ls, best, Zbest) ==
    [policy |-> policy, n_ants |-> n_ants, ls |-> ls,
     best |-> best, Zbest |-> Zbest, seed_ant |-> None]

\* an instance of n jobs on one machine, all times, due dates and weights 1
Plain(n) ==
    Instance(n, 1, [j \in 0..(n-1) |-> <<1>>], [j \in 0..(n-1) |-> 1],
             [j \in 0..(n-1) |-> 1])

\* self.create_solution() of the colony: the records it can return
create_solution(colony, inst, h) ==
    IF colony.policy = "MMAS"
    THEN MMAS_create_solution(inst.n, h[colony.best])
    ELSE PACO_create_solution(inst.n, h[colony.best])

InitCons ==
    /\ \E n \in 1..MaxJobs :
         /\ instance = Plain(n)
         /\ heap \in {<<[k \in 1..n |-> k - 1]>>, <<[k \in 1..n |-> n - k]>>}
    /\ optimizer = NoOptimizer
    /\ aco \in {Colony(policy, 1, "none", 1, 1) : policy \in {"MMAS", "PACO"}}
    /\ solutions = <<>>
    /\ scores = <<>>
    /\ pc = "idle"
    /\ now = 0
    /\ observed = "none"
    /\ steps = 0
    /\ evaluated = {}
    /\ runs = 0
    /\ fn = [op |-> "none"]

ConsCreateSolution ==
    /\ fn.op = "none"
    /\ \E r \in create_solution(aco, instance, heap) :
         fn' = [op |-> "create_solution", constructed |-> r.constructed,
                out |-> r.solution, fresh |-> r.fresh]
    /\ UNCHANGED <<instance, runVars>>

NextCons == ConsCreateSolution

SpecCons == InitCons /\ [][NextCons]_vars

\* C3: MMAS.create_solution returns a valid permutation: the constructed
\* sequence when it holds every job exactly once, otherwise the current best.
C3_MMASReturnsPermutation ==
    (fn.op = "create_solution" /\ aco.policy = "MMAS") =>
        /\ IsPermutation(fn.out, instance.n)
        /\ IsPermutation(fn.constructed, instance.n) => fn.out = fn.constructed
        /\ ~IsPermutation(fn.constructed, instance.n) => fn.out = heap[aco.best]

\* a construction that repeated a job and fell back to a best that is not
\* the initial contents of the solution array
C3_Witness ==
    /\ fn.op = "create_solution" /\ aco.policy = "MMAS"
    /\ instance.n = 5
    /\ \E i, j \in 1..5 : i # j /\ fn.constructed[i] = fn.constructed[j]
    /\ fn.out = <<4, 3, 2, 1, 0>>
    /\ ~fn.fresh

\* C4: PACO.create_solution returns a valid permutation for every N >= 1.
C4_PACOReturnsPermutation ==
    (fn.op = "create_solution" /\ aco.policy = "PACO") =>
        IsPermutation(fn.out, instance.n)

---------------------------------------------------------------------------
(* SpecOpt: an optimizer driven through its public methods in any order,   *)
(* as a caller other than the colony may do: start, evaluate, step,        *)
(* is_running, with the clock advancing in between, and solutions to end.  *)

MaxIterations == 2     \* n_iterations given to the constructor
MaxStagnation == 1     \* early_stopping given to the constructor
MaxTime == 1           \* max_time given to the constructor
MaxClock == 2          \* readings of time.time()
MaxHistory == 3        \* evaluations recorded between two calls of start
MaxRuns == 2           \* calls of start

\* (n_iterations, early_stopping, max_time) of the optimizers built
StopSettings ==
    {<<Inf, Inf, None>>, <<MaxIterations, Inf, None>>,
     <<Inf, MaxStagnation, None>>, <<Inf, Inf, MaxTime>>}

\* the sequences the caller hands to evaluate
Candidates(inst) ==
    IF inst = Tiny THEN {<<1, 0, 2>>, <<2, 0, 1>>, <<0, 1, 2>>}
    ELSE Perms(inst.n)

InitOpt ==
    /\ instance \in {Tiny, ForcedTardiness, Plain(2)}
    /\ heap = <<>>
    /\ optimizer \in {NewOptimizer(kind, c[1], c[2], c[3]) :
                        kind \in {"Optimizer", "BiObjectiveOptimizer"},
                        c \in StopSettings}
    /\ aco = NoAco
    /\ solutions = <<>>
    /\ scores = <<>>
    /\ pc = "idle"
    /\ now = 0
    /\ observed = "none"
    /\ steps = 0
    /\ evaluated = {}
    /\ runs = 0
    /\ fn = [op |-> "none"]

\* optimizer.start()
OptStart ==
    /\ pc = "idle"
    /\ runs < MaxRuns
    /\ optimizer' = start(optimizer, now)
    /\ observed' = "none"
    /\ runs' = runs + 1
    /\ UNCHANGED <<instance, heap, aco, solutions, scores, pc, now, steps,
                   evaluated, fn>>

\* optimizer.evaluate(instance, solution) for an array the caller built
OptEvaluate ==
    /\ pc = "idle"
    /\ Len(optimizer.objective) < MaxHistory
    /\ \E pi \in Candidates(instance) :
         LET a == Alloc(heap)
             h == Store(heap, a, pi)
             r == evaluate(optimizer, instance, h, a)
         IN  /\ optimizer' = r.opt
             /\ heap' = Collect(h, OptimizerRefs(r.opt))
             /\ evaluated' = evaluated \cup
                    {[wt |-> weighted_tardiness(instance, pi),
                      m |-> makespan(instance, pi)]}
    /\ UNCHANGED <<instance, aco, solutions, scores, pc, now, observed, steps,
                   runs, fn>>

\* optimizer.step()
OptStep ==
    /\ pc = "idle"
    /\ optimizer.n_iterations < MaxIterations
    /\ optimizer' = step(optimizer)
    /\ UNCHANGED <<instance, heap, aco, solutions, scores, pc, now, observed,
                   steps, evaluated, runs, fn>>

\* optimizer.is_running()
OptIsRunning ==
    /\ pc = "idle"
    /\ observed' = IF is_running(optimizer, now) THEN "True" ELSE "False"
    /\ UNCHANGED <<instance, heap, optimizer, aco, solutions, scores, pc, now,
                   steps, evaluated, runs, fn>>

\* time passes; the clock is read only by an optimizer given a max_time
Tick ==
    /\ pc \notin {"done", "crashed"}
    /\ optimizer.max_time # None
    /\ now < MaxClock
    /\ now' = now + 1
    /\ UNCHANGED <<instance, heap, optimizer, aco, solutions, scores, pc,
                   observed, steps, evaluated, runs, fn>>

\* optimizer.solutions(), the caller's closing call (run.py prints its first
\* element and ends); an exception it raises is not caught
OptSolutions ==
    /\ pc = "idle"
    /\ \E r \in {solutions_of(optimizer, heap)} :
         /\ fn' = [op |-> "solutions", raised |-> r.raised, ret |-> r.ret]
         /\ pc' = IF r.raised = "none" THEN "done" ELSE "crashed"
    /\ UNCHANGED <<instance, heap, optimizer, aco, solutions, scores, now,
                   observed, steps, evaluated, runs>>

NextOpt ==
    OptStart \/ OptEvaluate \/ OptStep \/ OptIsRunning \/ OptSolutions \/ Tick

SpecOpt == InitOpt /\ [][NextOpt]_vars

\* C8: within one run, once is_running() has returned false no later call
\* returns true, whatever evaluate() and step() calls come in between.
C8_StopIsFinal ==
    [][(runs > 0 /\ observed = "False") => observed' # "True"]_vars

\* the dominance rule as the documentation words it
RefDominates(a, b) ==
    (a.wt <= b.wt /\ a.m <= b.m) /\ (a.wt < b.wt \/ a.m < b.m)

\* C10: no entry of the Pareto set dominates another, and every candidate
\* evaluated so far is in the set, or dominated by or objective-equal to an
\* entry of it.
C10_ParetoSetIsFront ==
    optimizer.kind = "BiObjectiveOptimizer" =>
        LET set == optimizer.pareto_set
        IN  /\ \A i, j \in DOMAIN set : ~RefDominates(set[i], set[j])
            /\ \A e \in evaluated :
                 \E i \in DOMAIN set :
                    \/ (set[i].wt = e.wt /\ set[i].m = e.m)
                    \/ RefDominates(set[i], e)

\* two entries that do not dominate each other, after a candidate was
\* turned away or thrown out
C10_Witness ==
    /\ optimizer.kind = "BiObjectiveOptimizer"
    /\ Len(optimizer.pareto_set) = 2
    /\ Cardinality(evaluated) = 3
    /\ Len(optimizer.objective) = 3

\* C11: when solutions() is called on a bi-objective optimizer whose Pareto
\* set is not empty, it returns without error the list of the permutations
\* stored in the set, one per entry.
C11_SolutionsListsTheParetoSet ==
    (/\ fn.op = "solutions"
     /\ optimizer.kind = "BiObjectiveOptimizer"
     /\ optimizer.pareto_set # <<>>)
    => /\ fn.raised = "none"
       /\ fn.ret = [i \in DOMAIN optimizer.pareto_set |->
                       heap[optimizer.pareto_set[i].sol]]

\* C12: start() on an optimizer that has already served a run leaves it as
\* a fresh one: history empty, iteration and stagnation counters 0, no best
\* solution, Zbest infinite and the Pareto set empty.
C12_StartResetsEverything ==
    [][(runs >= 1 /\ runs' = runs + 1) =>
          /\ optimizer'.objective = <<>>
          /\ optimizer'.n_iterations = 0
          /\ optimizer'.n_steps_without_improvement = 0
          /\ optimizer'.best = None
          /\ optimizer'.Zbest = Inf
          /\ optimizer'.pareto_set = <<>>]_vars

\* C20: evaluate on a bi-objective optimizer sets the stagnation counter to
\* 0 when no entry of the Pareto set dominates the candidate, which then
\* enters the set (the first candidate and one that evicts nobody
\* included), and adds 1 to it when the candidate is discarded.
C20_EnteringTheSetResetsStagnation ==
    [][(/\ optimizer.kind = "BiObjectiveOptimizer"
        /\ Len(optimizer'.objective) = Len(optimizer.objective) + 1) =>
          LET last == optimizer'.objective[Len(optimizer'.objective)]
              new == [wt |-> last[1], m |-> last[2]]
              enters == \A i \in DOMAIN optimizer.pareto_set :
                            ~RefDominates(optimizer.pareto_set[i], new)
          IN  optimizer'.n_steps_without_improvement =
                  IF enters THEN 0
                  ELSE optimizer.n_steps_without_improvement + 1]_vars

\* C21: when the candidate's (WT, Cmax) pair is the pair of an entry of the
\* Pareto set, the set keeps the permutation that entry had.
C21_EqualPairKeepsFirstPermutation ==
    [][(/\ optimizer.kind = "BiObjectiveOptimizer"
        /\ Len(optimizer'.objective) = Len(optimizer.objective) + 1) =>
          LET last == optimizer'.objective[Len(optimizer'.objective)]
              old == optimizer.pareto_set
              new == optimizer'.pareto_set
          IN  \A i \in DOMAIN old :
                (old[i].wt = last[1] /\ old[i].m = last[2]) =>
                    \E j \in DOMAIN new :
                        /\ new[j].wt = old[i].wt /\ new[j].m = old[i].m
                        /\ heap'[new[j].sol] = heap[old[i].sol]]_vars

---------------------------------------------------------------------------
(* Spec: the driver of run.py,                                             *)
(*     aco.initialize(instance); while optimizer.is_running(): aco.step()  *)
(* with one action per turn of the ant loop of ACO.step. fn keeps the      *)
(* calls of update_pheromones the current step has made: whether after the *)
(* loop, for which ant of the step, how many ants had their score by then, *)
(* the weighted tardiness it found and, after the loop, that of every ant  *)
(* of the step.                                                            *)

MaxAnts == 2      \* n_ants given to the colony
MaxSteps == 1     \* ACO.step calls followed
MaxPacoJobs == 2  \* jobs of the instances given to a PACO colony

\* (n_iterations, early_stopping, max_time) of the optimizers of a run
RunSettings ==
    {<<MaxSteps, Inf, None>>, <<Inf, MaxStagnation, None>>,
     <<Inf, Inf, MaxTime>>}

\* NumPy raises IndexError for a job identifier outside -n..n-1
Indexable(solution, n) ==
    \A k \in DOMAIN solution : solution[k] \in (0 - n)..(n - 1)

\* the search ACO.local_search calls for self._ls
search(ls, inst, solution) ==
    IF ls = "swap" THEN swap_search(inst, solution)
    ELSE IF ls = "interchange" THEN interchange_search(inst, solution)
    ELSE insertion_search(inst, solution)

\* the for loop of ACO.local_search from turn `round` on: the array at a is
\* left as the kernel leaves it, the result is a new array
RECURSIVE LocalSearchRounds(_, _, _, _, _)
LocalSearchRounds(ls, inst, h, a, round) ==
    IF round >= 3
    THEN [heap |-> h, ant |-> a]
    ELSE LET r == search(ls, inst, h[a])
             h1 == [h EXCEPT ![a] = r.solution]
             b == Alloc(h1)
             h2 == Store(h1, b, r.new_sol)
         IN  IF r.improvement
             THEN LocalSearchRounds(ls, inst, h2, b, round + 1)
             ELSE [heap |-> h2, ant |-> b]

\* ACO.local_search(ant): the heap afterwards and the array of the ant returned
local_search(colony, inst, h, a) ==
    IF colony.ls = "none"
    THEN [heap |-> h, ant |-> a]
    ELSE LocalSearchRounds(colony.ls, inst, h, a, 0)

\* np.argmin(scores): the first position of the smallest score
argmin(s) == CHOOSE k \in DOMAIN s :
                 /\ \A i \in DOMAIN s : s[k] <= s[i]
                 /\ \A i \in DOMAIN s : i < k => s[i] > s[k]

\* the arrays the colony and the running step refer to
ColonyRefs(colony, ants) ==
    {colony.best} \cup Range(ants)
    \cup (IF colony.seed_ant = None THEN {} ELSE {colony.seed_ant})

RunInstances == {ForcedTardiness, Improvable}

Init ==
    /\ instance \in RunInstances
    /\ heap = <<>>
    /\ optimizer \in {NewOptimizer("Optimizer", c[1], c[2], c[3]) :
                        c \in RunSettings}
    /\ aco \in {Colony(policy, n_ants, ls, None, None) :
                  policy \in {"MMAS", "PACO"}, n_ants \in 1..MaxAnts,
                  ls \in {"none", "swap", "interchange", "insertion"}}
    /\ aco.policy = "PACO" => instance.n <= MaxPacoJobs
    /\ solutions = <<>>
    /\ scores = <<>>
    /\ pc = "new"
    /\ now = 0
    /\ observed = "none"
    /\ steps = 0
    /\ evaluated = {}
    /\ runs = 0
    /\ fn = [op |-> "none"]

\* aco.initialize(instance); each intermediate value is bound once, in the
\* order the statements run
Initialize ==
    /\ pc = "new"
    /\ \E indices \in argsort(instance.d, instance.n) :
       \E a \in {Alloc(heap)} :
       \E h0 \in {Store(heap, a, neh_algorithm(instance, indices))} :
       \E e1 \in {evaluate(start(optimizer, now), instance, h0, a)} :
       \E b \in {Alloc(h0)} :
       \E ls \in {local_search(aco, instance, Store(h0, b, h0[a]), a)} :
       \E e2 \in {evaluate(e1.opt, instance, ls.heap, ls.ant)} :
       \E best \in {IF e2.ret < e1.ret THEN Alloc(ls.heap) ELSE b} :
       \E colony \in {[aco EXCEPT
                         !.Zbest = IF e2.ret < e1.ret THEN e2.ret ELSE e1.ret,
                         !.best = best,
                         !.seed_ant = IF aco.policy = "PACO" THEN best
                                      ELSE None]} :
         /\ optimizer' = e2.opt
         /\ aco' = colony
         /\ heap' = Collect(IF e2.ret < e1.ret
                            THEN Store(ls.heap, best, ls.heap[ls.ant])
                            ELSE ls.heap,
                            OptimizerRefs(e2.opt) \cup ColonyRefs(colony, <<>>))
    /\ pc' = "loop"
    /\ runs' = runs + 1
    /\ UNCHANGED <<instance, solutions, scores, now, observed, steps,
                   evaluated, fn>>

\* while optimizer.is_running(): on true ACO.step begins
LoopTest ==
    /\ pc = "loop"
    /\ steps < MaxSteps \/ ~is_running(optimizer, now)
    /\ observed' = IF is_running(optimizer, now) THEN "True" ELSE "False"
    /\ pc' = IF is_running(optimizer, now) THEN "ant" ELSE "done"
    /\ solutions' = <<>>
    /\ scores' = <<>>
    /\ fn' = IF is_running(optimizer, now)
             THEN [op |-> "step", calls |-> <<>>, constructed |-> 0]
             ELSE fn
    /\ UNCHANGED <<instance, heap, optimizer, aco, now, steps, evaluated,
                   runs>>

\* MMAS.pheromones_are_individual / PACO.pheromones_are_individual
pheromones_are_individual(colony) == colony.policy = "PACO"

\* the weighted tardiness of the arrays of the ants, as they are in heap h
CurrentZ(inst, h, ants) ==
    [k \in DOMAIN ants |-> weighted_tardiness(inst, h[ants[k]])]

\* what follows create_solution in one turn of the for loop of ACO.step, for
\* the ant whose array is at address a of heap h0
AntTurn(h0, a) ==
    \E ls \in {local_search(aco, instance, h0, a)} :
    \E e1 \in {IF pheromones_are_individual(aco)
               THEN evaluate(optimizer, instance, ls.heap, ls.ant)
               ELSE [opt |-> optimizer, ret |-> None]} :
    \E e2 \in {evaluate(e1.opt, instance, ls.heap, ls.ant)} :
    \E colony \in {IF e2.ret < aco.Zbest
                   THEN [aco EXCEPT !.Zbest = e2.ret, !.best = ls.ant]
                   ELSE aco} :
    \E running \in {is_running(e2.opt, now)} :
        /\ optimizer' = e2.opt
        /\ aco' = colony
        /\ solutions' = Append(solutions, ls.ant)
        /\ scores' = Append(scores, e2.ret)
        /\ fn' = [fn EXCEPT
                    !.constructed = @ + 1,
                    !.calls = IF pheromones_are_individual(aco)
                              THEN Append(@, [after_loop |-> FALSE,
                                              ant |-> Len(solutions) + 1,
                                              scored |-> Len(scores),
                                              Z |-> e1.ret,
                                              wts |-> <<>>])
                              ELSE @]
        /\ observed' = IF running THEN "True" ELSE "False"
        /\ heap' = Collect(ls.heap,
                           OptimizerRefs(e2.opt)
                           \cup ColonyRefs(colony, Append(solutions, ls.ant)))
        /\ pc' = IF running /\ Len(solutions) + 1 < aco.n_ants
                 THEN "ant" ELSE "post"

\* one turn of the for loop of ACO.step
AntIteration ==
    /\ pc = "ant"
    /\ \E r \in {[solution |-> x.solution, fresh |-> x.fresh] :
                    x \in create_solution(aco, instance, heap)} :
       \E a \in {IF r.fresh THEN Alloc(heap) ELSE aco.best} :
       \E h0 \in {IF r.fresh THEN Store(heap, a, r.solution) ELSE heap} :
         IF ~Indexable(h0[a], instance.n)
         THEN /\ pc' = "crashed"   \* IndexError leaves ACO.step and the driver
              /\ solutions' = <<>>
              /\ scores' = <<>>
              /\ heap' = Collect(heap, OptimizerRefs(optimizer)
                                       \cup ColonyRefs(aco, <<>>))
              /\ UNCHANGED <<optimizer, aco, observed, fn>>
         ELSE AntTurn(h0, a)
    /\ UNCHANGED <<instance, now, steps, evaluated, runs>>

\* the end of ACO.step, after the for loop
StepEnd ==
    /\ pc = "post"
    /\ \E e \in {IF ~pheromones_are_individual(aco)
                 THEN evaluate(optimizer, instance, heap,
                               solutions[argmin(scores)])
                 ELSE [opt |-> optimizer, ret |-> None]} :
         /\ optimizer' = e.opt
         /\ fn' = [fn EXCEPT
                     !.calls = IF ~pheromones_are_individual(aco)
                               THEN Append(@, [after_loop |-> TRUE,
                                               ant |-> argmin(scores),
                                               scored |-> Len(scores),
                                               Z |-> e.ret,
                                               wts |-> CurrentZ(instance, heap,
                                                                solutions)])
                               ELSE @]
         /\ heap' = Collect(heap, OptimizerRefs(e.opt)
                                  \cup ColonyRefs(aco, <<>>))
    /\ solutions' = <<>>
    /\ scores' = <<>>
    /\ steps' = steps + 1
    /\ pc' = "loop"
    /\ UNCHANGED <<instance, aco, now, observed, evaluated, runs>>

Next == Initialize \/ LoopTest \/ AntIteration \/ StepEnd \/ Tick

Spec == Init /\ [][Next]_vars

\* the smallest weighted tardiness evaluate has returned since start()
HistoryMin(o) ==
    CHOOSE z \in {o.objective[i][1] : i \in DOMAIN o.objective} :
        \A i \in DOMAIN o.objective : z <= o.objective[i][1]

\* C2: after initialize and after every step, Optimizer.solutions()[0] is a
\* valid permutation whose weighted tardiness is Optimizer.Zbest, the
\* smallest value of the history.
C2_StoredBestKeepsItsValue ==
    pc \in {"loop", "done"} =>
        /\ IsPermutation(heap[optimizer.best], instance.n)
        /\ weighted_tardiness(instance, heap[optimizer.best]) = optimizer.Zbest
        /\ optimizer.Zbest = HistoryMin(optimizer)

\* C7: once initialize has returned, the colony's Zbest never increases and
\* is the smallest weighted tardiness evaluate has returned so far in the run.
C7_ZbestIsHistoryMin ==
    pc \in {"loop", "ant", "post", "done", "crashed"} =>
        aco.Zbest = HistoryMin(optimizer)

\* C9: with only max_n_iterations = K set, the iteration counter of the
\* optimizer counts the ACO steps made, so the loop ends after K of them.
C9_CounterCountsSteps ==
    (optimizer.max_n_iterations # Inf /\ pc \in {"loop", "done"}) =>
        /\ optimizer.n_iterations = steps
        /\ (steps >= optimizer.max_n_iterations => ~is_running(optimizer, now))

\* C19: in a step that has returned, cut short or not, an MMAS colony has
\* called update_pheromones once, after the loop, with the ant of lowest
\* weighted tardiness among those of the step; a PACO colony has called it
\* once for each ant, in order, before that ant got its score, and never
\* after the loop. No ant is constructed once is_running() has returned
\* false in the step.
C19_PheromoneDiscipline ==
    /\ [](pc \in {"loop", "done"} /\ steps > 0 =>
            IF aco.policy = "MMAS"
            THEN /\ Len(fn.calls) = 1
                 /\ fn.calls[1].after_loop
                 /\ fn.calls[1].ant \in 1..fn.constructed
                 /\ \A k \in DOMAIN fn.calls[1].wts :
                       fn.calls[1].Z <= fn.calls[1].wts[k]
            ELSE /\ Len(fn.calls) = fn.constructed
                 /\ \A k \in DOMAIN fn.calls :
                       /\ ~fn.calls[k].after_loop
                       /\ fn.calls[k].ant = k
                       /\ fn.calls[k].scored = k - 1)
    /\ [][(pc = "ant" /\ observed = "False") =>
              Len(solutions') <= Len(solutions)]_vars

\* C18: inside ACO.step the history grows by one entry for each ant
\* constructed and by nothing else: evaluate is called once per ant.
C18_OneEvaluationPerAnt ==
    [][(pc \in {"ant", "post"}) =>
          (Len(optimizer'.objective) =
              Len(optimizer.objective)
              + IF Len(solutions') > Len(solutions) THEN 1 ELSE 0)]_vars

---------------------------------------------------------------------------
(* SpecNew: MMAS(optimizer, n_ants, rho, ls) or PACO(...) built from the   *)
(* caller's arguments, then aco.initialize(instance).                      *)

\* rho in hundredths
RhoVals == {-25, 0, 75, 100, 125}

\* the names given as ls
LsArgs == {"none", "swap", "interchange", "insertion", " Swap ", "2-opt"}

\* ls.lower().strip()
lower_strip(ls) == IF ls = " Swap " THEN "swap" ELSE ls

\* the list lss of ACO.__init__
lss == {"none", "swap", "interchange", "insertion"}

InitNew ==
    /\ instance = ForcedTardiness
    /\ heap = <<>>
    /\ optimizer = NoOptimizer
    /\ aco = NoAco
    /\ solutions = <<>>
    /\ scores = <<>>
    /\ pc = "args"
    /\ now = 0
    /\ observed = "none"
    /\ steps = 0
    /\ evaluated = {}
    /\ runs = 0
    /\ fn \in [op : {"ACO"}, policy : {"MMAS", "PACO"}, n_ants : -1..MaxAnts,
               rho : RhoVals, ls : LsArgs]

\* ACO.__init__ through MMAS.__init__ or PACO.__init__: the assert on the
\* name of the local search is its only test
NewACO ==
    /\ pc = "args"
    /\ IF lower_strip(fn.ls) \in lss
       THEN /\ aco' = [rho |-> fn.rho] @@
                      Colony(fn.policy, fn.n_ants, lower_strip(fn.ls),
                             None, None)
            /\ pc' = "new"
       ELSE /\ aco' = aco
            /\ pc' = "crashed"
    /\ UNCHANGED <<instance, heap, optimizer, solutions, scores, now,
                   observed, steps, evaluated, runs, fn>>

NextNew == NewACO \/ Initialize

SpecNew == InitNew /\ [][NextNew]_vars

\* C13: a colony that initialize() has run on was built with a known
\* local-search name, n_ants > 0 and 0 < rho < 1.
C13_BadArgumentsAreRejected ==
    pc = "loop" =>
        /\ aco.ls \in lss
        /\ aco.n_ants > 0
        /\ 0 < aco.rho /\ aco.rho < 100

---------------------------------------------------------------------------
(* SpecTau: the pheromone trails. aco.initialize(instance), then steps of  *)
(* an MMAS colony of one ant without local search. Floating-point values   *)
(* are fractions <<num, den>> of naturals, with the IEEE results of the    *)
(* division by zero: <<1, 0>> is inf and <<0, 0>> is nan; the rounding to  *)
(* float32 is left out. A tau not yet built is <<>>.                       *)

MaxUpdates == 2     \* steps taken after initialize

RECURSIVE GCD(_, _)
GCD(a, b) == IF b = 0 THEN a ELSE GCD(b, a % b)

\* the fraction a / b in lowest terms
Frac(a, b) ==
    LET g == GCD(a, b)
    IN  IF g = 0 THEN <<0, 0>> ELSE <<a \div g, b \div g>>

IsNan(x) == x[1] = 0 /\ x[2] = 0
IsInf(x) == x[1] > 0 /\ x[2] = 0
IsFinite(x) == x[2] # 0

\* x * y, x / y, x + y and x <= y on floats
fmul(x, y) == Frac(x[1] * y[1], x[2] * y[2])
fdiv(x, y) == Frac(x[1] * y[2], x[2] * y[1])
fadd(x, y) ==
    IF IsNan(x) \/ IsNan(y) THEN <<0, 0>>
    ELSE IF IsInf(x) \/ IsInf(y) THEN <<1, 0>>
    ELSE Frac(x[1] * y[2] + y[1] * x[2], x[2] * y[2])
fle(x, y) == ~IsNan(x) /\ ~IsNan(y) /\ x[1] * y[2] <= y[1] * x[2]

\* np.clip(x, lo, hi) on one element: minimum(maximum(x, lo), hi)
clip(x, lo, hi) ==
    IF IsNan(x) THEN x
    ELSE LET up == IF fle(lo, x) THEN x ELSE lo
         IN  IF fle(up, hi) THEN up ELSE hi

\* np.full((n, n), v)
full(n, v) == [i \in 0..(n - 1) |-> [j \in 0..(n - 1) |-> v]]

\* MMAS.update_parameters; PACO.update_parameters is `pass`
update_parameters(colony) ==
    IF colony.policy = "MMAS"
    THEN LET tau_max == fdiv(<<1, 1>>,
                             fmul(Frac(100 - colony.rho, 100),
                                  <<colony.Zbest, 1>>))
         IN  [colony EXCEPT !.tau_max = tau_max,
                            !.tau_min = fdiv(tau_max, <<5, 1>>)]
    ELSE colony

\* np.argsort(indices)[i] for a permutation: the position of job i
position(indices, i) == CHOOSE k \in 0..(Len(indices) - 1) : indices[k + 1] = i

\* PACO.init_pheromones, the trails
PACO_init_pheromones(colony, indices) ==
    LET n == Len(indices)
        diff(i, k) == (IF position(indices, i) >= k
                       THEN position(indices, i) - k
                       ELSE k - position(indices, i)) + 1
        first(i, k) == IF n < 4 * diff(i, k)
                       THEN fdiv(<<1, colony.Zbest>>, <<2, 1>>)
                       ELSE <<1, colony.Zbest>>
    IN  [i \in 0..(n - 1) |-> [k \in 0..(n - 1) |->
            IF n <= 2 * diff(i, k) THEN fdiv(first(i, k), <<2, 1>>)
            ELSE first(i, k)]]

\* MMAS.init_pheromones and PACO.init_pheromones
init_pheromones(colony, h) ==
    IF colony.policy = "MMAS"
    THEN [colony EXCEPT !.tau = full(Len(h[colony.best]), colony.tau_max)]
    ELSE [colony EXCEPT !.tau = PACO_init_pheromones(colony, h[colony.best]),
                        !.seed_ant = colony.best]

\* MMAS.update_pheromones once Zcurrent is known: evaporation, the trail of
\* the ant, the clipping
MMAS_update_pheromones(colony, Zcurrent, indices) ==
    LET n == Len(indices)
    IN  [colony EXCEPT !.tau =
            [i \in 0..(n - 1) |-> [j \in 0..(n - 1) |->
                LET evaporated == fmul(colony.tau[i][j],
                                       Frac(colony.rho, 100))
                    laid == IF indices[j + 1] = i
                            THEN fadd(evaporated,
                                      fdiv(<<1, 1>>, <<Zcurrent, 1>>))
                            ELSE evaporated
                IN  clip(laid, colony.tau_min, colony.tau_max)]]]

TauInstances == {Tiny, ForcedTardiness, Improvable}

InitTau ==
    /\ instance \in TauInstances
    /\ heap = <<>>
    /\ optimizer = NoOptimizer
    /\ aco \in {[rho |-> rho, tau |-> <<>>, tau_max |-> None,
                 tau_min |-> None] @@ Colony(policy, 1, "none", None, None) :
                  policy \in {"MMAS", "PACO"}, rho \in {23, 40, 75}}
    /\ solutions = <<>>
    /\ scores = <<>>
    /\ pc = "new"
    /\ now = 0
    /\ observed = "none"
    /\ steps = 0
    /\ evaluated = {}
    /\ runs = 0
    /\ fn = [op |-> "none"]

\* the end of ACO.initialize: update_parameters(), init_pheromones()
TauInitialize ==
    /\ pc = "loop"
    /\ aco.tau = <<>>
    /\ aco' = init_pheromones(update_parameters(aco), heap)
    /\ UNCHANGED <<instance, heap, optimizer, solutions, scores, pc, now,
                   observed, steps, evaluated, runs, fn>>

\* ACO.step of the MMAS colony: the ant is any permutation, it is
\* evaluated and compared with the best, then update_pheromones evaluates
\* it again and lays its trail, then update_parameters
TauStep ==
    /\ pc = "loop"
    /\ aco.tau # <<>>
    /\ aco.policy = "MMAS"
    /\ steps < MaxUpdates
    /\ \E pi \in Perms(instance.n) :
       \E a \in {Alloc(heap)} :
       \E h \in {Store(heap, a, pi)} :
       \E e1 \in {evaluate(optimizer, instance, h, a)} :
       \E c1 \in {IF e1.ret < aco.Zbest
                  THEN [aco EXCEPT !.Zbest = e1.ret, !.best = a]
                  ELSE aco} :
       \E e2 \in {evaluate(e1.opt, instance, h, a)} :
       \E c2 \in {update_parameters(
                      MMAS_update_pheromones(c1, e2.ret, h[a]))} :
         /\ optimizer' = e2.opt
         /\ aco' = c2
         /\ heap' = Collect(h, OptimizerRefs(e2.opt) \cup ColonyRefs(c2, <<>>))
    /\ steps' = steps + 1
    /\ UNCHANGED <<instance, solutions, scores, pc, now, observed, evaluated,
                   runs, fn>>

NextTau == Initialize \/ TauInitialize \/ TauStep

SpecTau == InitTau /\ [][NextTau]_vars

\* C14: once the trails exist, every entry of tau is finite and positive,
\* and so are tau_max and tau_min of an MMAS colony, also when Zbest is 0.
C14_TrailsStayFinite ==
    (pc = "loop" /\ aco.tau # <<>>) =>
        /\ \A i, j \in DOMAIN aco.tau :
             IsFinite(aco.tau[i][j]) /\ aco.tau[i][j][1] > 0
        /\ aco.policy = "MMAS" =>
             /\ IsFinite(aco.tau_max) /\ aco.tau_max[1] > 0
             /\ IsFinite(aco.tau_min) /\ aco.tau_min[1] > 0

\* C22: for an MMAS colony with Zbest > 0, when initialize or a step has
\* returned, tau_max = 1 / ((1 - rho) * Zbest) and tau_min = tau_max / 5 for
\* the current Zbest, and every entry of tau lies in [tau_min, tau_max].
C22_TrailsWithinCurrentBounds ==
    (pc = "loop" /\ aco.tau # <<>> /\ aco.policy = "MMAS" /\ aco.Zbest > 0) =>
        /\ aco.tau_max = Frac(100, (100 - aco.rho) * aco.Zbest)
        /\ aco.tau_min = Frac(100, 5 * (100 - aco.rho) * aco.Zbest)
        /\ \A i, j \in DOMAIN aco.tau :
             /\ fle(aco.tau_min, aco.tau[i][j])
             /\ fle(aco.tau[i][j], aco.tau_max)

\* C26: after PACO.init_pheromones with Zbest > 0, where diff is the
\* distance of k from the position of job i in the best sequence, plus one:
\* tau[i, k] is 1/Zbest when diff <= N/4, half of it when N/4 < diff <= N/2
\* and a quarter of it when diff > N/2; when the best sequence is the
\* identity, tau[i, k] depends on |i - k| alone.
C26_TrailsHalvedByDistance ==
    (pc = "loop" /\ aco.tau # <<>> /\ aco.policy = "PACO" /\ aco.Zbest > 0) =>
        LET n == instance.n
            pos(i) == position(heap[aco.best], i)
            diff(i, k) == (IF pos(i) >= k THEN pos(i) - k ELSE k - pos(i)) + 1
            gap(i, k) == IF i >= k THEN i - k ELSE k - i
        IN  /\ \A i, k \in 0..(n - 1) :
                 aco.tau[i][k] =
                     IF 4 * diff(i, k) <= n THEN Frac(1, aco.Zbest)
                     ELSE IF 2 * diff(i, k) <= n THEN Frac(1, 2 * aco.Zbest)
                     ELSE Frac(1, 4 * aco.Zbest)
            /\ heap[aco.best] = [j \in 1..n |-> j - 1] =>
                 \A i, k, i2, k2 \in 0..(n - 1) :
                     gap(i, k) = gap(i2, k2) =>
                         aco.tau[i][k] = aco.tau[i2][k2]

---------------------------------------------------------------------------
(* SpecSeed: two executions of the program with the same seed, instance    *)
(* and arguments, up to the first ant each constructs. An execution has    *)
(* two generators: NumPy's global one, which np.random.seed sets, and the  *)
(* one of the compiled kernels, which the runtime seeds from the system    *)
(* when the process starts. fn holds the seed and, for each execution, the *)
(* state of both; solutions holds, for each execution, the sequence built. *)

MaxEntropy == 2     \* states a generator can start in
MaxSeed == 1        \* the largest seed given
MaxSeedJobs == 3    \* jobs of the instance

Entropy == 0..(MaxEntropy - 1)

Runs == {1, 2}

\* the k-th element of S in a fixed order
RECURSIVE Nth(_, _)
Nth(S, k) ==
    LET x == CHOOSE y \in S : TRUE
    IN  IF k = 0 \/ Cardinality(S) = 1 THEN x ELSE Nth(S \ {x}, k - 1)

InitSeed ==
    /\ \E n \in 3..MaxSeedJobs :
         /\ instance = Plain(n)
         /\ heap = <<[k \in 1..n |-> k - 1]>>
    /\ aco \in {Colony(policy, 1, "none", 1, 1) : policy \in {"MMAS", "PACO"}}
    /\ optimizer = NoOptimizer
    /\ solutions = <<<<>>, <<>>>>
    /\ scores = <<>>
    /\ pc = "idle"
    /\ now = 0
    /\ observed = "none"
    /\ steps = 0
    /\ evaluated = {}
    /\ runs = 0
    /\ fn \in [op : {"seed"}, seed : 0..MaxSeed,
               numpy : [Runs -> Entropy], numba : [Runs -> Entropy],
               started : {[r \in Runs |-> FALSE]}]

\* optimizer.start() in execution r: np.random.seed(self._seed), called
\* from interpreted code
SeedStart(r) ==
    /\ ~fn.started[r]
    /\ fn' = [fn EXCEPT !.numpy[r] = fn.seed, !.started[r] = TRUE]
    /\ UNCHANGED <<instance, runVars>>

\* create_solution() in execution r: the np.random.rand() calls are inside
\* the nopython kernel and read the kernels' generator
SeedCreate(r) ==
    /\ fn.started[r]
    /\ solutions[r] = <<>>
    /\ \E outcomes \in {{o.solution : o \in create_solution(aco, instance, heap)}} :
         solutions' = [solutions EXCEPT
                          ![r] = <<Nth(outcomes, fn.numba[r])>>]
    /\ fn' = [fn EXCEPT !.numba[r] = (@ + 1) % MaxEntropy]
    /\ UNCHANGED <<instance, heap, optimizer, aco, scores, pc, now, observed,
                   steps, evaluated, runs>>

NextSeed == \E r \in Runs : SeedStart(r) \/ SeedCreate(r)

SpecSeed == InitSeed /\ [][NextSeed]_vars

\* C15: two executions with the same seed, instance and arguments construct
\* the same sequences, hence record the same history.
C15_SameSeedSameRun ==
    (solutions[1] # <<>> /\ solutions[2] # <<>>) => solutions[1] = solutions[2]

---------------------------------------------------------------------------
(* SpecPick: one turn of the for loop of MMAS._create_solution, at any     *)
(* position and with any jobs left. fn holds the candidates (the jobs not  *)
(* yet placed, in the order of the best sequence), then the branch taken,  *)
(* the index computed and the job placed.                                  *)

MaxPickJobs == 6    \* jobs of the instance

\* the elements of s at the positions in keep, in order
RECURSIVE Select(_, _)
Select(s, keep) ==
    IF s = <<>> THEN <<>>
    ELSE IF Len(s) \in keep
    THEN Append(Select(SubSeq(s, 1, Len(s) - 1), keep), s[Len(s)])
    ELSE Select(SubSeq(s, 1, Len(s) - 1), keep)

InitPick ==
    /\ \E n \in 1..MaxPickJobs :
         /\ instance = Plain(n)
         /\ heap = <<[k \in 1..n |-> k - 1]>>
         /\ fn \in {[op |-> "turn", candidates |-> Select(heap[1], keep)] :
                      keep \in SUBSET (1..n) \ {{}}}
    /\ optimizer = NoOptimizer
    /\ aco = Colony("MMAS", 1, "none", 1, 1)
    /\ solutions = <<>>
    /\ scores = <<>>
    /\ pc = "idle"
    /\ now = 0
    /\ observed = "none"
    /\ steps = 0
    /\ evaluated = {}
    /\ runs = 0

\* u < (n - 4.) / n: the argmax over the candidates
PickArgmax ==
    /\ fn.op = "turn"
    /\ instance.n > 4
    /\ \E candidate_id \in 0..(Len(fn.candidates) - 1) :
       \E i \in ReadSlot(fn.candidates, candidate_id, instance.n) :
         fn' = [op |-> "argmax", candidates |-> fn.candidates,
                candidate_id |-> candidate_id, i |-> i]
    /\ UNCHANGED <<instance, runVars>>

\* otherwise: the draw among the candidates
PickSample ==
    /\ fn.op = "turn"
    /\ \E candidate_id \in MMAS_sampled_id(instance.n, Len(fn.candidates)) :
       \E i \in ReadSlot(fn.candidates, candidate_id, instance.n) :
         fn' = [op |-> "sample", candidates |-> fn.candidates,
                candidate_id |-> candidate_id, i |-> i]
    /\ UNCHANGED <<instance, runVars>>

NextPick == PickArgmax \/ PickSample

SpecPick == InitPick /\ [][NextPick]_vars

\* C23: in the probabilistic branch the index computed lies in the window of
\* the first min(5, |C|) candidates and the job placed is the candidate at
\* that index.
C23_SampleStaysInWindow ==
    fn.op = "sample" =>
        /\ fn.candidate_id \in 0..(Min(5, Len(fn.candidates)) - 1)
        /\ fn.i = fn.candidates[fn.candidate_id + 1]

---------------------------------------------------------------------------
(* SpecPaco: the driver of run.py for a PACO colony of two ants without    *)
(* local search on the three-job instance, stopped by stagnation.          *)

InitPaco ==
    /\ instance = Improvable
    /\ heap = <<>>
    /\ optimizer = NewOptimizer("Optimizer", Inf, MaxStagnation, None)
    /\ aco = Colony("PACO", MaxAnts, "none", None, None)
    /\ solutions = <<>>
    /\ scores = <<>>
    /\ pc = "new"
    /\ now = 0
    /\ observed = "none"
    /\ steps = 0
    /\ evaluated = {}
    /\ runs = 0
    /\ fn = [op |-> "none"]

NextPaco == Initialize \/ LoopTest \/ AntIteration \/ StepEnd

SpecPaco == InitPaco /\ [][NextPaco]_vars

\* C24: whenever a PACO colony is about to construct an ant, the sequence
\* create_solution takes its candidates from is the seed sequence fixed at
\* init_pheromones.
C24_CandidatesComeFromSeed ==
    (pc = "ant" /\ aco.policy = "PACO") =>
        heap[aco.best] = heap[aco.seed_ant]

---------------------------------------------------------------------------
(* SpecTrail: the pheromone trails of a PACO colony of one ant without     *)
(* local search: aco.initialize(instance), then steps. update_pheromones   *)
(* adds multiples of 1/sqrt(r) for r = 1, 2, 3, which are independent over *)
(* the rationals, so an entry of tau is held exactly as the coefficients   *)
(* <<a, b, c>> of a + b/sqrt(2) + c/sqrt(3). fn holds the last call of     *)
(* update_pheromones: the tau it found, its ant, Zcurrent and the best     *)
(* sequence it read.                                                       *)

MaxRadicand == 3    \* largest |h_best - k| + 1, reached with three jobs

abs(x) == IF x < 0 THEN 0 - x ELSE x

\* a rational entry of tau as coefficients of 1/sqrt(r), r in 1..MaxRadicand
lift(x) == [r \in 1..MaxRadicand |-> IF r = 1 THEN x ELSE <<0, 1>>]

\* PACO.update_pheromones once Zcurrent is known: evaporation, then the
\* trail of the ant around its positions
PACO_update_pheromones(colony, Zcurrent, indices, best) ==
    LET n == Len(indices)
        h(i) == position(indices, i)
        h_best(i) == best[i + 1]
        radicand(i, k) == abs(h_best(i) - k) + 1
        bound == IF n <= 40 THEN 1 ELSE 2
    IN  [colony EXCEPT !.tau =
            [i \in 0..(n - 1) |-> [k \in 0..(n - 1) |->
                LET evaporated == [r \in 1..MaxRadicand |->
                                      fmul(colony.tau[i][k][r],
                                           Frac(colony.rho, 100))]
                IN  IF abs(h(i) - k) <= bound
                    THEN [evaporated EXCEPT ![radicand(i, k)] =
                              fadd(@, fdiv(<<1, 1>>, <<Zcurrent, 1>>))]
                    ELSE evaporated]]]

InitTrail ==
    /\ instance \in TauInstances
    /\ heap = <<>>
    /\ optimizer = NoOptimizer
    /\ aco \in {[rho |-> rho, tau |-> <<>>, tau_max |-> None,
                 tau_min |-> None] @@ Colony("PACO", 1, "none", None, None) :
                  rho \in {23, 40, 75}}
    /\ solutions = <<>>
    /\ scores = <<>>
    /\ pc = "new"
    /\ now = 0
    /\ observed = "none"
    /\ steps = 0
    /\ evaluated = {}
    /\ runs = 0
    /\ fn = [op |-> "none"]

\* the end of ACO.initialize: update_parameters(), init_pheromones()
TrailInitialize ==
    /\ pc = "loop"
    /\ aco.tau = <<>>
    /\ \E c \in {init_pheromones(update_parameters(aco), heap)} :
         aco' = [c EXCEPT !.tau = [i \in DOMAIN c.tau |->
                                      [k \in DOMAIN c.tau[i] |->
                                          lift(c.tau[i][k])]]]
    /\ UNCHANGED <<instance, heap, optimizer, solutions, scores, pc, now,
                   observed, steps, evaluated, runs, fn>>

\* ACO.step of the PACO colony: the ant is any permutation,
\* update_pheromones evaluates it and lays its trail, then it is evaluated
\* again and compared with the best
TrailStep ==
    /\ pc = "loop"
    /\ aco.tau # <<>>
    /\ steps < MaxUpdates
    /\ \E pi \in Perms(instance.n) :
       \E a \in {Alloc(heap)} :
       \E h \in {Store(heap, a, pi)} :
       \E e1 \in {evaluate(optimizer, instance, h, a)} :
       \E c1 \in {PACO_update_pheromones(aco, e1.ret, h[a], h[aco.best])} :
       \E e2 \in {evaluate(e1.opt, instance, h, a)} :
       \E c2 \in {IF e2.ret < c1.Zbest
                  THEN [c1 EXCEPT !.Zbest = e2.ret, !.best = a]
                  ELSE c1} :
         /\ optimizer' = e2.opt
         /\ aco' = c2
         /\ heap' = Collect(h, OptimizerRefs(e2.opt) \cup ColonyRefs(c2, <<>>))
         /\ fn' = [op |-> "update_pheromones", tau |-> aco.tau, ant |-> pi,
                   Zcurrent |-> e1.ret, best |-> h[aco.best]]
    /\ steps' = steps + 1
    /\ UNCHANGED <<instance, solutions, scores, pc, now, observed, evaluated,
                   runs>>

NextTrail == Initialize \/ TrailInitialize \/ TrailStep

SpecTrail == InitTrail /\ [][NextTrail]_vars

\* C25: PACO.update_pheromones(ant) leaves in every entry (i, k) the old
\* value times rho, plus 1 / (Z * sqrt(|pos_best[i] - k| + 1)) exactly when
\* |pos[i] - k| <= bound, where pos[i] and pos_best[i] are the positions of
\* job i in the ant and in the best-so-far permutation.
C25_DepositUsesPositionInBest ==
    fn.op = "update_pheromones" =>
        LET n == Len(fn.ant)
            bound == IF n <= 40 THEN 1 ELSE 2
        IN  \A i, k \in 0..(n - 1) :
                LET evaporated == [r \in 1..MaxRadicand |->
                                      fmul(fn.tau[i][k][r],
                                           Frac(aco.rho, 100))]
                    r0 == abs(position(fn.best, i) - k) + 1
                IN  aco.tau[i][k] =
                        IF abs(position(fn.ant, i) - k) <= bound
                        THEN [evaporated EXCEPT ![r0] =
                                 fadd(@, fdiv(<<1, 1>>, <<fn.Zcurrent, 1>>))]
                        ELSE evaporated

===========================================================================
